---- MODULE Spec2Model ----
(***************************************************************************)
(* Model of src/src/astroid.cc: the process entry of the astroid mail      *)
(* client.  Every invocation runs Astroid::main; the host session          *)
(* (GApplication / D-Bus name "org.astroid") decides whether it becomes    *)
(* the primary instance or a remote one that forwards a request and        *)
(* returns.  Strings handled by send_mailto are sequences of one-character *)
(* strings.                                                                *)
(***************************************************************************)
EXTENDS Integers, Sequences, FiniteSets, TLC

(* ------------------------------ bounds --------------------------------- *)

\* number of invocations of the program (process ids are launch order)
NProcs == 3

\* largest number of self-activation events the host emits in SpecHost
MaxSelfAct == 2

\* longest text (after an optional "mailto:" prefix) given to send_mailto
\* in SpecSolo
MaxRawLen == 3

Procs == 1..NProcs

(* ------------------------------ strings -------------------------------- *)

\* g_ascii_isalpha, on the letters used here
Alpha == {"a", "b", "i", "l", "m", "o", "t"}

\* g_ascii_isdigit, on the digits used here
Digit == {"1"}

\* characters a URI scheme may continue with (RFC 3986, g_uri_parse_scheme)
SchemeChars == Alpha \cup Digit \cup {"+", "-", "."}

\* ustring::npos: no position of any string
npos == 0 - 1

Min(a, b) == IF a < b THEN a ELSE b

\* ustring::substr (pos, n): the characters [pos, pos+n) that exist, pos 0-based
substr(s, pos, n) == SubSeq(s, pos + 1, Min(pos + n, Len(s)))

\* ustring::find (c): 0-based position of the first c, or npos
find(s, c) ==
  IF \E i \in 1..Len(s) : s[i] = c
  THEN (CHOOSE i \in 1..Len(s) : s[i] = c /\ \A j \in 1..(i - 1) : s[j] # c) - 1
  ELSE npos

RECURSIVE scan_scheme(_, _)
\* the loop of g_uri_parse_scheme from the second character on: the scheme
\* ends at the first ':', any other non-scheme character or the end of the
\* string gives NULL (here the empty string, as Glib::uri_parse_scheme
\* returns for NULL)
scan_scheme(uri, i) ==
  IF i > Len(uri) THEN <<>>
  ELSE IF uri[i] = ":" THEN SubSeq(uri, 1, i - 1)
  ELSE IF uri[i] \in SchemeChars THEN scan_scheme(uri, i + 1)
  ELSE <<>>

\* Glib::uri_parse_scheme: the scheme WITHOUT its ':' separator, or empty
uri_parse_scheme(uri) ==
  IF Len(uri) = 0 \/ uri[1] \notin Alpha THEN <<>> ELSE scan_scheme(uri, 2)

(* --------------------------- windows and modes ------------------------- *)

\* new MainWindow (): no modes, no set_active call made on it yet
MainWindow == [modes |-> <<>>, set_active |-> <<>>]

\* MainWindow::add_mode
add_mode(mw, m) == [mw EXCEPT !.modes = Append(@, m)]

\* MainWindow::set_active (n), recorded as a call
set_active(mw, n) == [mw EXCEPT !.set_active = Append(@, n)]

\* new SavedSearches (mw) with invincible = true
SavedSearchesMode == [kind |-> "SavedSearches", arg |-> <<>>, invincible |-> TRUE]

\* new ThreadIndex (mw, query, name) with invincible = true; kv = <<name, query>>
ThreadIndexMode(kv) == [kind |-> "ThreadIndex", arg |-> kv, invincible |-> TRUE]

\* new EditMessage (mw, to)
EditMessage(to) == [kind |-> "EditMessage", arg |-> to, invincible |-> FALSE]

RECURSIVE add_queries(_, _, _)
\* the loop over config ("startup.queries") of open_new_window
add_queries(mw, qpt, i) ==
  IF i > Len(qpt) THEN mw
  ELSE add_queries(add_mode(mw, ThreadIndexMode(qpt[i])), qpt, i + 1)

\* open_new_window adding the startup queries before the saved searches
open_new_window_queries_first(c, open_defaults) ==
  IF open_defaults
  THEN LET w1 == add_queries(MainWindow, c.queries, 1)
           w2 == IF c.show_on_startup
                 THEN add_mode(w1, SavedSearchesMode)
                 ELSE w1
       IN  set_active(w2, 0)
  ELSE MainWindow

\* Astroid::open_new_window, the window it builds (c is the loaded config)
open_new_window(c, open_defaults) ==
  IF open_defaults
  THEN LET w1 == IF c.show_on_startup
                 THEN add_mode(MainWindow, SavedSearchesMode)
                 ELSE MainWindow
           w2 == add_queries(w1, c.queries, 1)
       IN  set_active(w2, 0)
  ELSE MainWindow

\* send_mailto without the cut at '?': the query string stays in the address
send_mailto_keep_query(mw, url) ==
  LET scheme == uri_parse_scheme(url) IN
  IF Len(scheme) > 0
  THEN add_mode(mw, EditMessage(substr(url, Len(scheme), Len(url) - Len(scheme))))
  ELSE add_mode(mw, EditMessage(url))

\* send_mailto without the scheme test: every text is cut at its first '?'
send_mailto_always_cut(mw, url) ==
  LET p0  == find(url, "?")
      pos == IF p0 = npos THEN Len(url) ELSE p0
  IN  add_mode(mw, EditMessage(substr(url, 0, pos)))

\* Astroid::send_mailto, the window after the call
send_mailto(mw, url) ==
  LET scheme == uri_parse_scheme(url) IN
  IF Len(scheme) > 0
  THEN LET u   == substr(url, Len(scheme), Len(url) - Len(scheme))
           p0  == find(u, "?")
           pos == IF p0 = npos THEN Len(u) ELSE p0
           to  == substr(u, 0, pos)
       IN  add_mode(mw, EditMessage(to))
  ELSE add_mode(mw, EditMessage(url))

(* ----------------------------- command lines ---------------------------- *)

MailtoScheme == <<"m", "a", "i", "l", "t", "o">>

\* vm.count ("mailto") = 0
NoMailto == <<"-">>

\* the value of --mailto used by the invocations of Spec: a mailto URL with
\* a query string, "mailto:a@b?t"
MailtoArgs == { MailtoScheme \o <<":", "a", "@", "b", "?", "t">> }

\* the parsed command line (po::variables_map vm); log is the --log option
NoFlags ==
  [help |-> FALSE, new_config |-> FALSE, test_config |-> FALSE, config |-> FALSE,
   no_auto_poll |-> FALSE, disable_plugins |-> FALSE, log |-> FALSE,
   mailto |-> NoMailto]

\* the command lines the invocations of Spec are launched with
Invocations ==
  { NoFlags,
    [NoFlags EXCEPT !.config = TRUE, !.test_config = TRUE] }
  \cup { [NoFlags EXCEPT !.mailto = x] : x \in MailtoArgs }

RECURSIVE RawStrings(_)
\* every text of at most n characters over the characters below
RawStrings(n) ==
  IF n = 0 THEN { <<>> }
  ELSE LET shorter == RawStrings(n - 1) IN
       shorter \cup { Append(s, c) : s \in shorter, c \in {"a", "1", "@", "?", ":"} }

\* the texts send_mailto is given in SpecSolo: with and without "mailto:"
RawInputs ==
  RawStrings(MaxRawLen) \cup { MailtoScheme \o <<":">> \o s : s \in RawStrings(MaxRawLen) }

\* command lines with any text for --mailto
DecodeInvocations == { [NoFlags EXCEPT !.mailto = x] : x \in RawInputs }

\* command lines with any combination of the options without a value
OptionInvocations ==
  [help : BOOLEAN, new_config : BOOLEAN, test_config : BOOLEAN, config : BOOLEAN,
   no_auto_poll : BOOLEAN, disable_plugins : BOOLEAN, log : BOOLEAN,
   mailto : {NoMailto}]

(* ---------------------------- configuration ---------------------------- *)

\* contents of config ("startup.queries"), as <<name, query>> in declared order
StartupQueries ==
  { <<>>,
    << <<"inbox", "tag:inbox">> >>,
    << <<"inbox", "tag:inbox">>, <<"flagged", "tag:flagged">> >>,
    << <<"flagged", "tag:flagged">>, <<"inbox", "tag:inbox">> >> }

\* m_config before main loads it
NoConfig == [loaded |-> FALSE, test |-> FALSE, show_on_startup |-> FALSE, queries |-> <<>>]

\* what new Config (...) may load
AllConfigs ==
  { [loaded |-> TRUE, test |-> t, show_on_startup |-> s, queries |-> q] :
      t \in BOOLEAN, s \in BOOLEAN, q \in StartupQueries }

\* the configurations loaded in Spec: nothing to show on startup, or the saved
\* searches and two startup queries
Configs ==
  { c \in AllConfigs :
      \/ ~c.show_on_startup /\ c.queries = <<>>
      \/ c.show_on_startup /\ c.queries = << <<"inbox", "tag:inbox">>, <<"flagged", "tag:flagged">> >> }

\* the configuration files: the default one and the one --config names
ConfigPaths == {"default", "X"}

\* the file --new-config is to write: vm["config"] if given, otherwise
\* ncnf.std_paths.config_file
Target(f) == IF f.config THEN "X" ELSE "default"

(* -------------------------------- state -------------------------------- *)

VARIABLES
  pc,           \* where each invocation is in Astroid::main
  flags,        \* its parsed command line
  owner,        \* the process owning "org.astroid" on the host session, 0: none
  is_remote,    \* app->is_remote () after registration
  arrived,      \* the requests delivered to a process since it registered, in arrival order
  queue,        \* requests delivered to a process, not yet dispatched by its loop
  activated,    \* Astroid::activated
  handlers,     \* the signals and actions the process has connected handlers to
  m_config,     \* Astroid::m_config
  inits,        \* the subsystems initialised, in order
  plugin_args,  \* the arguments PluginManager was constructed with
  poll,         \* the argument Poll was constructed with
  windows,      \* the windows added to the application, in creation order
  sent,         \* the requests the process sent to the running instance
  exit_code,    \* <<>> while running; <<c>> once exit (c) or return c happened
  teardown,     \* the teardown steps on_quit performed, in order
  logf_open,    \* logf.is_open ()
  sinks,        \* the out streams of the log
  log,          \* the lines logged, by severity
  files,        \* the configuration files that exist
  written,      \* the configuration files the process wrote, and whether each existed
  self_acts,    \* how many activate signals the host emits to a primary itself
  self_done,    \* how many of them the process has handled
  handled       \* the events its handlers ran for during app->run (): the event, the
                \* flag and the number of windows before, the number of windows after

vars ==
  << pc, flags, owner, is_remote, arrived, queue, activated, handlers, m_config, inits, plugin_args,
     poll, windows, sent, exit_code, teardown, logf_open, sinks, log, files,
     written, self_acts, self_done, handled >>

\* the state of every process before it is launched: the Astroid constructor
\* has added cout to the log
InitProcs ==
  /\ pc = [p \in Procs |-> "idle"]
  /\ flags = [p \in Procs |-> NoFlags]
  /\ owner = 0
  /\ is_remote = [p \in Procs |-> FALSE]
  /\ arrived = [p \in Procs |-> <<>>]
  /\ queue = [p \in Procs |-> <<>>]
  /\ activated = [p \in Procs |-> FALSE]
  /\ handlers = [p \in Procs |-> {}]
  /\ m_config = [p \in Procs |-> NoConfig]
  /\ inits = [p \in Procs |-> <<>>]
  /\ plugin_args = [p \in Procs |-> <<>>]
  /\ poll = [p \in Procs |-> <<>>]
  /\ windows = [p \in Procs |-> <<>>]
  /\ sent = [p \in Procs |-> <<>>]
  /\ exit_code = [p \in Procs |-> <<>>]
  /\ teardown = [p \in Procs |-> <<>>]
  /\ logf_open = [p \in Procs |-> FALSE]
  /\ sinks = [p \in Procs |-> {"cout"}]
  /\ log = [p \in Procs |-> <<>>]
  /\ written = [p \in Procs |-> <<>>]
  /\ self_done = [p \in Procs |-> 0]
  /\ handled = [p \in Procs |-> <<>>]

\* g_application_run emits one activate signal to the primary itself; no
\* configuration file has been written yet
Init == InitProcs /\ self_acts = 1 /\ files = {}

\* a host that emits any number of them from 1 to MaxSelfAct
InitHost == InitProcs /\ self_acts \in 1..MaxSelfAct /\ files = {}

\* any of the configuration files may exist already
InitSolo == InitProcs /\ self_acts = 1 /\ files \in SUBSET ConfigPaths

(* ------------------------------- helpers ------------------------------- *)

\* log << severity << text ...: the lines are appended as <<severity, text>>
Logged(p, lines) == log' = [log EXCEPT ![p] = @ \o lines]

\* exit (c) or return c from main: the process is gone and, if it owned the
\* application identity, the host session releases it (what was delivered to
\* it and not dispatched is dropped by the action that exits)
Exits(p, c) ==
  /\ pc' = [pc EXCEPT ![p] = "exited"]
  /\ exit_code' = [exit_code EXCEPT ![p] = <<c>>]
  /\ owner' = IF owner = p THEN 0 ELSE owner

\* bool domailto / ustring mailtourl of main
domailto(p) == flags[p].mailto # NoMailto

\* the request a remote invocation forwards: the "mailto" action with the
\* text of --mailto as its parameter, or the generic activate
Request(p) ==
  IF domailto(p)
  THEN [kind |-> "mailto", param |-> flags[p].mailto, origin |-> "remote"]
  ELSE [kind |-> "activate", param |-> <<>>, origin |-> "remote"]

\* the activate signal g_application_run emits in the primary itself
SelfActivation == [kind |-> "activate", param |-> <<>>, origin |-> "self"]

(* ------------------------------- actions -------------------------------- *)

\* the --log block without the logf.good () test on the sink
open_log_attach_always(f, file_ok) ==
  IF f.log
  THEN IF file_ok
       THEN [attach |-> TRUE, lines |-> << <<"info", "logging to">> >>]
       ELSE [attach |-> TRUE, lines |-> << <<"error", "could not open">> >>]
  ELSE [attach |-> FALSE, lines |-> << >>]

\* the --log block of main: the file sink is attached if the file could be
\* opened (logf.good ()), otherwise an error is logged
open_log(f, file_ok) ==
  IF f.log
  THEN IF file_ok
       THEN [attach |-> TRUE, lines |-> << <<"info", "logging to">> >>]
       ELSE [attach |-> FALSE, lines |-> << <<"error", "could not open">> >>]
  ELSE [attach |-> FALSE, lines |-> << >>]

\* the block without the two exists () checks
new_config_no_exists_check(f, target_exists) ==
  IF f.test_config
  THEN [exit |-> 1, write |-> FALSE,
        lines |-> << <<"error", "new-config with test-config">> >>]
  ELSE [exit |-> 0, write |-> TRUE,
        lines |-> << <<"info", "creating new config">>,
                     <<"info", "writing default config">> >>]

\* the block without the test_config check
new_config_ignore_test(f, target_exists) ==
  IF target_exists
  THEN [exit |-> 1, write |-> FALSE,
        lines |-> << <<"info", "creating new config">>,
                     <<"error", "config file already exists">> >>]
  ELSE [exit |-> 0, write |-> TRUE,
        lines |-> << <<"info", "creating new config">>,
                     <<"info", "writing default config">> >>]

\* the "make new config" block of main, entered with --new-config: the exit
\* code, whether load_config (true) writes the target, and the line logged
new_config(f, target_exists) ==
  IF f.test_config
  THEN [exit |-> 1, write |-> FALSE,
        lines |-> << <<"error", "new-config with test-config">> >>]
  ELSE IF target_exists
  THEN [exit |-> 1, write |-> FALSE,
        lines |-> << <<"info", "creating new config">>,
                     <<"error", "config file already exists">> >>]
  ELSE [exit |-> 0, write |-> TRUE,
        lines |-> << <<"info", "creating new config">>,
                     <<"info", "writing default config">> >>]

\* the program is started with command line f (ids follow launch order) and
\* runs main up to the creation of the application: --help, --log,
\* --new-config (file_ok: the log file could be opened)
main_options(p, f) ==
  /\ pc[p] = "idle"
  /\ \A q \in Procs : q < p => pc[q] # "idle"
  /\ flags' = [flags EXCEPT ![p] = f]
  /\ \E file_ok \in BOOLEAN :
       LET lg == open_log(f, file_ok)
           nc == new_config(f, Target(f) \in files)
       IN
       /\ (f.log /\ ~f.help) \/ file_ok
       /\ IF f.help
          THEN /\ Exits(p, 0)
               /\ UNCHANGED << logf_open, sinks, log, files, written >>
          ELSE /\ logf_open' = [logf_open EXCEPT ![p] = lg.attach]
               /\ sinks' = [sinks EXCEPT ![p] = IF lg.attach THEN @ \cup {"logf"} ELSE @]
               /\ IF f.new_config
                  THEN /\ Exits(p, nc.exit)
                       /\ Logged(p, lg.lines \o nc.lines)
                       /\ files' = IF nc.write THEN files \cup {Target(f)} ELSE files
                       /\ written' = [written EXCEPT ![p] =
                            IF nc.write
                            THEN Append(@, [path |-> Target(f), existed |-> Target(f) \in files])
                            ELSE @]
                  ELSE /\ pc' = [pc EXCEPT ![p] = "register"]
                       /\ Logged(p, lg.lines \o
                            (IF f.no_auto_poll
                             THEN << <<"info", "automatic polling is off">> >>
                             ELSE << >>))
                       /\ UNCHANGED << exit_code, owner, files, written >>
  /\ UNCHANGED << is_remote, arrived, queue, activated, handlers, m_config, inits,
                  plugin_args, poll, windows, sent, teardown, self_acts, self_done,
                  handled >>

\* app->register_application () when nobody owns the identity: this process
\* becomes the primary instance
RegisterPrimary(p) ==
  /\ pc[p] = "register"
  /\ owner = 0
  /\ owner' = p
  /\ pc' = [pc EXCEPT ![p] = "primary"]
  /\ UNCHANGED << files, written, is_remote, arrived, flags, queue, activated, handlers, m_config, inits, plugin_args,
                  poll, windows, sent, exit_code, teardown, logf_open, sinks, log,
                  self_acts, self_done, handled >>

\* app->register_application () when an instance is running: is_remote ()
RegisterRemote(p) ==
  /\ pc[p] = "register"
  /\ owner # 0
  /\ is_remote' = [is_remote EXCEPT ![p] = TRUE]
  /\ pc' = [pc EXCEPT ![p] = "remote"]
  /\ UNCHANGED << files, written, arrived, flags, owner, queue, activated, handlers, m_config, inits,
                  plugin_args, poll, windows, sent, exit_code, teardown, logf_open,
                  sinks, log, self_acts, self_done, handled >>

\* app->register_application () fails: it throws Glib::Error, which main does
\* not catch; nothing is logged and neither exit (1) nor a return is reached
RegisterFails(p) ==
  /\ pc[p] = "register"
  /\ pc' = [pc EXCEPT ![p] = "uncaught"]
  /\ UNCHANGED << files, written, is_remote, arrived, flags, owner, queue, activated, handlers, m_config, inits,
                  plugin_args, poll, windows, sent, exit_code, teardown, logf_open,
                  sinks, log, self_acts, self_done, handled >>

\* the branch, if --no-auto-poll of the second invocation were applied to the
\* poller of the running instance
Forward_applies_no_auto_poll(p) ==
  /\ pc[p] = "remote"
  /\ sent' = [sent EXCEPT ![p] = Append(@, [kind |-> Request(p).kind, param |-> Request(p).param])]
  /\ queue' = IF owner # 0 THEN [queue EXCEPT ![owner] = Append(@, Request(p))] ELSE queue
  /\ arrived' = IF owner # 0 THEN [arrived EXCEPT ![owner] = Append(@, Request(p))] ELSE arrived
  /\ poll' = IF owner # 0 /\ poll[owner] # <<>> /\ flags[p].no_auto_poll
             THEN [poll EXCEPT ![owner] = << FALSE >>]
             ELSE poll
  /\ Logged(p, << <<"warn", "instance already running">> >> \o
       (IF flags[p].no_auto_poll THEN << <<"warn", "no-auto-poll ignored">> >> ELSE << >>))
  /\ Exits(p, 0)
  /\ UNCHANGED << files, written, is_remote, flags, activated, handlers, m_config, inits, plugin_args,
                  windows, teardown, logf_open, sinks, self_acts, self_done, handled >>

\* the is_remote () branch of main: forward the request and return 0.  The
\* host delivers it to the process owning the identity now, if any
Forward(p) ==
  /\ pc[p] = "remote"
  /\ sent' = [sent EXCEPT ![p] = Append(@, [kind |-> Request(p).kind, param |-> Request(p).param])]
  /\ queue' = IF owner # 0 THEN [queue EXCEPT ![owner] = Append(@, Request(p))] ELSE queue
  /\ arrived' = IF owner # 0 THEN [arrived EXCEPT ![owner] = Append(@, Request(p))] ELSE arrived
  /\ Logged(p, << <<"warn", "instance already running">> >> \o
       (IF flags[p].no_auto_poll THEN << <<"warn", "no-auto-poll ignored">> >> ELSE << >>))
  /\ Exits(p, 0)
  /\ UNCHANGED << files, written, is_remote, flags, activated, handlers, m_config, inits, plugin_args, poll,
                  windows, teardown, logf_open, sinks, self_acts, self_done, handled >>

\* the main-instance branch: connect on_signal_activate, add the mailto action
InstallHandlers(p) ==
  /\ pc[p] = "primary"
  /\ handlers' = [handlers EXCEPT ![p] = {"activate", "mailto"}]
  /\ pc' = [pc EXCEPT ![p] = "load_config"]
  /\ UNCHANGED << files, written, is_remote, arrived, flags, owner, queue, activated, m_config, inits, plugin_args, poll,
                  windows, sent, exit_code, teardown, logf_open, sinks, log,
                  self_acts, self_done, handled >>

\* "load config" of main: --config with --test-config is an error, exit (1);
\* otherwise new Config (...) loads what the chosen file holds, one of cs
LoadConfig(p, cs) ==
  /\ pc[p] = "load_config"
  /\ IF flags[p].config /\ flags[p].test_config
     THEN /\ Exits(p, 1)
          /\ Logged(p, << <<"error", "config with test-config">> >>)
          /\ queue' = [queue EXCEPT ![p] = <<>>]
          /\ arrived' = [arrived EXCEPT ![p] = <<>>]
          /\ UNCHANGED m_config
     ELSE /\ \E c \in cs :
               /\ c.test = flags[p].test_config
               /\ m_config' = [m_config EXCEPT ![p] = c]
          /\ pc' = [pc EXCEPT ![p] = "bootstrap"]
          /\ UNCHANGED << exit_code, owner, log, queue, arrived >>
  /\ UNCHANGED << files, written, is_remote, flags, activated, handlers, inits, plugin_args, poll,
                  windows, sent, teardown, logf_open, sinks, self_acts, self_done,
                  handled >>

\* the order of main_test, which leaves the keybindings out
InitOrder_main_test ==
  << "Date", "Utils", "Db", "SavedSearches", "AccountManager",
     "PluginManager", "ActionManager", "Poll" >>

\* the subsystems main sets up, in the order of its statements
InitOrder ==
  << "Date", "Utils", "Db", "Keybindings", "SavedSearches", "AccountManager",
     "PluginManager", "ActionManager", "Poll" >>

\* "set up static classes" to "set up poller" of main
Bootstrap(p) ==
  /\ pc[p] = "bootstrap"
  /\ inits' = [inits EXCEPT ![p] = @ \o InitOrder]
  /\ plugin_args' = [plugin_args EXCEPT ![p] = << flags[p].disable_plugins, m_config[p].test >>]
  /\ poll' = [poll EXCEPT ![p] = << ~flags[p].no_auto_poll >>]
  /\ pc' = [pc EXCEPT ![p] = "own_intent"]
  /\ UNCHANGED << files, written, is_remote, arrived, flags, owner, queue, activated, handlers, m_config, windows, sent,
                  exit_code, teardown, logf_open, sinks, log, self_acts, self_done,
                  handled >>

\* main opens the window of its own command line, then calls app->run ()
OwnIntent(p) ==
  /\ pc[p] = "own_intent"
  /\ windows' = [windows EXCEPT ![p] =
       Append(@, IF domailto(p)
                 THEN send_mailto(open_new_window(m_config[p], FALSE), flags[p].mailto)
                 ELSE open_new_window(m_config[p], TRUE))]
  /\ pc' = [pc EXCEPT ![p] = "run"]
  /\ UNCHANGED << files, written, is_remote, arrived, flags, owner, queue, activated, handlers, m_config, inits,
                  plugin_args, poll, sent, exit_code, teardown, logf_open, sinks, log,
                  self_acts, self_done, handled >>

\* on_signal_activate without the activated flag: every signal opens a window
on_signal_activate_no_flag(p) ==
  /\ windows' = [windows EXCEPT ![p] = Append(@, open_new_window(m_config[p], TRUE))]
  /\ UNCHANGED activated

\* on_signal_activate that never opens a window
on_signal_activate_swallow_all(p) ==
  /\ activated' = [activated EXCEPT ![p] = TRUE]
  /\ UNCHANGED windows

\* on_signal_activate that forgets to set the activated flag
on_signal_activate_never_set(p) ==
  IF activated[p]
  THEN /\ windows' = [windows EXCEPT ![p] = Append(@, open_new_window(m_config[p], TRUE))]
       /\ UNCHANGED activated
  ELSE UNCHANGED << activated, windows >>

\* Astroid::on_signal_activate
on_signal_activate(p) ==
  IF activated[p]
  THEN /\ windows' = [windows EXCEPT ![p] = Append(@, open_new_window(m_config[p], TRUE))]
       /\ UNCHANGED activated
  ELSE /\ activated' = [activated EXCEPT ![p] = TRUE]
       /\ UNCHANGED windows

\* on_mailto_activate calling open_new_window () with its default argument
on_mailto_activate_defaults(p, parameter) ==
  /\ windows' = [windows EXCEPT ![p] =
       Append(@, send_mailto(open_new_window(m_config[p], TRUE), parameter))]
  /\ UNCHANGED activated

\* Astroid::on_mailto_activate
on_mailto_activate(p, parameter) ==
  /\ windows' = [windows EXCEPT ![p] =
       Append(@, send_mailto(open_new_window(m_config[p], FALSE), parameter))]
  /\ UNCHANGED activated

\* the handler connected for an event runs; what it was run for is recorded
Handle(p, ev) ==
  /\ IF ev.kind = "mailto"
     THEN "mailto" \in handlers[p] /\ on_mailto_activate(p, ev.param)
     ELSE "activate" \in handlers[p] /\ on_signal_activate(p)
  /\ handled' = [handled EXCEPT ![p] =
       Append(@, [ev |-> ev, flag |-> activated[p], before |-> Len(windows[p]),
                  after |-> Len(windows'[p])])]

\* app->run () activates the application itself before its loop dispatches
\* anything: the activate signal "from ourselves"
SelfActivate(p) ==
  /\ pc[p] = "run"
  /\ self_done[p] < self_acts
  /\ Handle(p, SelfActivation)
  /\ self_done' = [self_done EXCEPT ![p] = @ + 1]
  /\ pc' = [pc EXCEPT ![p] = IF self_done[p] + 1 = self_acts THEN "serving" ELSE "run"]
  /\ UNCHANGED << files, written, is_remote, arrived, flags, owner, queue, handlers, m_config, inits, plugin_args, poll,
                  sent, exit_code, teardown, logf_open, sinks, log, self_acts >>

\* the loop of app->run () dispatches the oldest delivered request
Dispatch(p) ==
  /\ pc[p] = "serving"
  /\ queue[p] # <<>>
  /\ Handle(p, Head(queue[p]))
  /\ queue' = [queue EXCEPT ![p] = Tail(@)]
  /\ UNCHANGED << files, written, is_remote, arrived, pc, flags, owner, handlers, m_config, inits, plugin_args, poll,
                  sent, exit_code, teardown, logf_open, sinks, log, self_acts,
                  self_done >>

\* the application is asked to quit: its windows are closed, app->run ()
\* returns and dispatches nothing any more
Quit(p) ==
  /\ pc[p] = "serving"
  /\ pc' = [pc EXCEPT ![p] = "quitting"]
  /\ windows' = [windows EXCEPT ![p] = <<>>]
  /\ queue' = [queue EXCEPT ![p] = <<>>]
  /\ arrived' = [arrived EXCEPT ![p] = <<>>]
  /\ handled' = [handled EXCEPT ![p] = <<>>]
  /\ self_done' = [self_done EXCEPT ![p] = 0]
  /\ UNCHANGED << files, written, is_remote, flags, owner, activated, handlers, m_config, inits,
                  plugin_args, poll, sent, exit_code, teardown, logf_open,
                  sinks, log, self_acts >>

\* the teardown steps of Astroid::on_quit, in the order of its statements
QuitOrder == << "ActionManager", "SavedSearches", "PluginManager" >>

\* on_quit without the logf.is_open () block: the file sink stays attached
on_quit_keeps_logf(p) ==
  /\ pc[p] = "quitting"
  /\ teardown' = [teardown EXCEPT ![p] = @ \o QuitOrder]
  /\ Logged(p, << <<"info", "goodbye">> >>)
  /\ Exits(p, 0)
  /\ activated' = [activated EXCEPT ![p] = FALSE]
  /\ handlers' = [handlers EXCEPT ![p] = {}]
  /\ m_config' = [m_config EXCEPT ![p] = NoConfig]
  /\ plugin_args' = [plugin_args EXCEPT ![p] = <<>>]
  /\ poll' = [poll EXCEPT ![p] = <<>>]
  /\ queue' = [queue EXCEPT ![p] = <<>>]
  /\ arrived' = [arrived EXCEPT ![p] = <<>>]
  /\ UNCHANGED << files, written, is_remote, flags, inits, windows, sent, self_acts, self_done,
                  handled, sinks, logf_open >>

\* Astroid::on_quit, then return 0 from main: the process and its objects
\* are gone
on_quit(p) ==
  /\ pc[p] = "quitting"
  /\ teardown' = [teardown EXCEPT ![p] = @ \o QuitOrder]
  /\ sinks' = [sinks EXCEPT ![p] = IF logf_open[p] THEN @ \ {"logf"} ELSE @]
  /\ logf_open' = [logf_open EXCEPT ![p] = FALSE]
  /\ Logged(p, << <<"info", "goodbye">> >>)
  /\ Exits(p, 0)
  /\ activated' = [activated EXCEPT ![p] = FALSE]
  /\ handlers' = [handlers EXCEPT ![p] = {}]
  /\ m_config' = [m_config EXCEPT ![p] = NoConfig]
  /\ plugin_args' = [plugin_args EXCEPT ![p] = <<>>]
  /\ poll' = [poll EXCEPT ![p] = <<>>]
  /\ queue' = [queue EXCEPT ![p] = <<>>]
  /\ arrived' = [arrived EXCEPT ![p] = <<>>]
  /\ UNCHANGED << files, written, is_remote, flags, inits, windows, sent, self_acts, self_done, handled >>

Next ==
  \/ \E p \in Procs, f \in Invocations : main_options(p, f)
  \/ \E p \in Procs : RegisterPrimary(p)
  \/ \E p \in Procs : RegisterRemote(p)
  \/ \E p \in Procs : RegisterFails(p)
  \/ \E p \in Procs : Forward(p)
  \/ \E p \in Procs : InstallHandlers(p)
  \/ \E p \in Procs : LoadConfig(p, Configs)
  \/ \E p \in Procs : Bootstrap(p)
  \/ \E p \in Procs : OwnIntent(p)
  \/ \E p \in Procs : SelfActivate(p)
  \/ \E p \in Procs : Dispatch(p)
  \/ \E p \in Procs : Quit(p)
  \/ \E p \in Procs : on_quit(p)

Spec == Init /\ [][Next]_vars

\* command lines with and without --no-auto-poll
PollInvocations ==
  { NoFlags,
    [NoFlags EXCEPT !.no_auto_poll = TRUE],
    [NoFlags EXCEPT !.no_auto_poll = TRUE, !.mailto = MailtoScheme \o <<":", "a", "@", "b">>] }

\* the program started several times with these command lines
NextPoll ==
  \/ \E p \in Procs, f \in PollInvocations : main_options(p, f)
  \/ \E p \in Procs : RegisterPrimary(p)
  \/ \E p \in Procs : RegisterRemote(p)
  \/ \E p \in Procs : RegisterFails(p)
  \/ \E p \in Procs : Forward(p)
  \/ \E p \in Procs : InstallHandlers(p)
  \/ \E p \in Procs : LoadConfig(p, Configs)
  \/ \E p \in Procs : Bootstrap(p)
  \/ \E p \in Procs : OwnIntent(p)
  \/ \E p \in Procs : SelfActivate(p)
  \/ \E p \in Procs : Dispatch(p)
  \/ \E p \in Procs : Quit(p)
  \/ \E p \in Procs : on_quit(p)

SpecPoll == Init /\ [][NextPoll]_vars

\* the same command line with and without --log, and one that is refused
LogInvocations ==
  { [NoFlags EXCEPT !.log = l, !.mailto = <<"a", "@", "b">>] : l \in BOOLEAN }
  \cup { [NoFlags EXCEPT !.config = TRUE, !.test_config = TRUE] }

\* the configuration loaded in SpecLog
LogConfigs == { c \in Configs : c.show_on_startup }

\* the program started several times with these command lines
NextLog ==
  \/ \E p \in Procs, f \in LogInvocations : main_options(p, f)
  \/ \E p \in Procs : RegisterPrimary(p)
  \/ \E p \in Procs : RegisterRemote(p)
  \/ \E p \in Procs : RegisterFails(p)
  \/ \E p \in Procs : Forward(p)
  \/ \E p \in Procs : InstallHandlers(p)
  \/ \E p \in Procs : LoadConfig(p, LogConfigs)
  \/ \E p \in Procs : Bootstrap(p)
  \/ \E p \in Procs : OwnIntent(p)
  \/ \E p \in Procs : SelfActivate(p)
  \/ \E p \in Procs : Dispatch(p)
  \/ \E p \in Procs : Quit(p)
  \/ \E p \in Procs : on_quit(p)

SpecLog == Init /\ [][NextLog]_vars

\* a single invocation, started with any text for --mailto or any combination
\* of options, and loading any configuration
NextSolo ==
  \/ \E f \in DecodeInvocations \cup OptionInvocations : main_options(1, f)
  \/ RegisterPrimary(1)
  \/ RegisterFails(1)
  \/ InstallHandlers(1)
  \/ LoadConfig(1, AllConfigs)
  \/ Bootstrap(1)
  \/ OwnIntent(1)
  \/ SelfActivate(1)
  \/ Quit(1)
  \/ on_quit(1)

SpecSolo == InitSolo /\ [][NextSolo]_vars

\* the same program under a host that may emit several self-activations
SpecHost == InitHost /\ [][Next]_vars

(* ======================================================================= *)
(* Properties                                                              *)
(* ======================================================================= *)

\* the records of handled[p] for requests forwarded by other invocations
Forwarded(p) == SelectSeq(handled[p], LAMBDA h : h.ev.origin = "remote")

\* the window is a compose window: one mode, an EditMessage
IsComposeWindow(w) == Len(w.modes) = 1 /\ w.modes[1].kind = "EditMessage"

\* the window holds the default views of configuration c and nothing else
IsDefaultWindow(w, c) ==
  /\ Len(w.modes) = (IF c.show_on_startup THEN 1 ELSE 0) + Len(c.queries)
  /\ \A i \in 1..Len(w.modes) : w.modes[i].kind \in {"SavedSearches", "ThreadIndex"}

\* the window the process's own command line asks for
IsOwnWindow(p, w) ==
  IF domailto(p) THEN IsComposeWindow(w) ELSE IsDefaultWindow(w, m_config[p])

\* the text has a URI scheme prefix: a letter, then letters, digits, '+', '-'
\* or '.', up to a ':' (RFC 3986)
HasSchemePrefix(raw) ==
  \E k \in 2..Len(raw) :
    /\ raw[k] = ":"
    /\ raw[1] \in Alpha
    /\ \A j \in 2..(k - 1) : raw[j] \in SchemeChars

\* raw is "mailto:" followed by address, with or without "?" and more text
IsMailtoOf(raw, address) ==
  /\ \A i \in 1..Len(address) : address[i] # "?"
  /\ \/ raw = MailtoScheme \o <<":">> \o address
     \/ /\ Len(raw) > Len(address) + 7
        /\ SubSeq(raw, 1, Len(address) + 8) = MailtoScheme \o <<":">> \o address \o <<"?">>

\* the recipient the decoder is to give for raw: the scheme and its separator
\* stripped, then the text up to the first '?'; raw itself without a scheme
Recipient(raw) ==
  IF HasSchemePrefix(raw)
  THEN LET k    == CHOOSE k \in 2..Len(raw) : raw[k] = ":" /\ \A j \in 1..(k - 1) : raw[j] # ":"
           rest == SubSeq(raw, k + 1, Len(raw))
       IN  IF \E i \in 1..Len(rest) : rest[i] = "?"
           THEN SubSeq(rest, 1, (CHOOSE i \in 1..Len(rest) :
                                   rest[i] = "?" /\ \A j \in 1..(i - 1) : rest[j] # "?") - 1)
           ELSE rest
  ELSE raw

(* C1: a primary that has bootstrapped, opened the window of its own command *)
(* line and handled its single self-activation, and no forwarded request     *)
(* yet, has exactly one window, the one of its own command line.             *)
C1_OneWindowAfterStartup ==
  \A p \in Procs :
    (pc[p] = "serving" /\ self_acts = 1 /\ self_done[p] = 1 /\ Forwarded(p) = <<>>)
      => /\ inits[p] = InitOrder
         /\ Len(windows[p]) = 1
         /\ IsOwnWindow(p, windows[p][1])

\* a primary is serving after its self-activation, with its one window, while
\* a forwarded request is already waiting
C1_Witness ==
  \E p \in Procs :
    /\ pc[p] = "serving" /\ self_done[p] = 1 /\ Len(handled[p]) = 1
    /\ queue[p] # <<>>
    /\ Len(windows[p]) = 1

(* C2 as claimed: however many self-activations (n >= 1) a primary has       *)
(* handled, with no forwarded request handled, it has the one window it has  *)
(* after the first of them.                                                  *)
C2_AnyNumberOfSelfActivations ==
  \A p \in Procs :
    (pc[p] \in {"run", "serving"} /\ self_done[p] >= 1 /\ Forwarded(p) = <<>>)
      => Len(windows[p]) = 1

(* C2 amended: only the first self-activation is swallowed; a primary that   *)
(* has handled n >= 1 self-activations and no forwarded request has n        *)
(* windows, so exactly one window only when n = 1.                           *)
C2_FirstSelfActivationOnly ==
  \A p \in Procs :
    (pc[p] \in {"run", "serving"} /\ self_done[p] >= 1 /\ Forwarded(p) = <<>>)
      => Len(windows[p]) = self_done[p]

\* a primary has handled two self-activations and nothing else
C2_Witness ==
  \E p \in Procs :
    /\ pc[p] = "serving" /\ self_done[p] = 2 /\ Len(handled[p]) = 2
    /\ Len(windows[p]) = 2

(* C3 as claimed: a remote invocation with --mailto X sends exactly one      *)
(* "mailto" action with X unmodified, opens no window, initialises nothing   *)
(* and returns 0; the primary, handling the action, opens exactly one new    *)
(* window with exactly one compose mode addressed to the recipient of X.     *)
C3_ForwardedMailto ==
  /\ \A q \in Procs :
       (is_remote[q] /\ domailto(q)) =>
         /\ windows[q] = <<>> /\ inits[q] = <<>>
         /\ pc[q] = "exited" =>
              /\ sent[q] = << [kind |-> "mailto", param |-> flags[q].mailto] >>
              /\ exit_code[q] = <<0>>
  /\ \A p \in Procs : \A i \in 1..Len(handled[p]) :
       LET h == handled[p][i] IN
       h.ev.kind = "mailto" =>
         /\ h.after = h.before + 1
         /\ h.after <= Len(windows[p]) =>
              windows[p][h.after].modes = << EditMessage(Recipient(h.ev.param)) >>

(* The part of C3 about the protocol alone holds: one "mailto" action with   *)
(* X unmodified, no window and no subsystem in the sender, return 0, and in  *)
(* the primary one new window with one compose mode per handled action.      *)
C3_ProtocolOnly ==
  /\ \A q \in Procs :
       (is_remote[q] /\ domailto(q)) =>
         /\ windows[q] = <<>> /\ inits[q] = <<>>
         /\ pc[q] = "exited" =>
              /\ sent[q] = << [kind |-> "mailto", param |-> flags[q].mailto] >>
              /\ exit_code[q] = <<0>>
  /\ \A p \in Procs : \A i \in 1..Len(handled[p]) :
       LET h == handled[p][i] IN
       h.ev.kind = "mailto" =>
         /\ h.after = h.before + 1
         /\ h.after <= Len(windows[p]) => IsComposeWindow(windows[p][h.after])

(* C4 as claimed: for an address without '?', "mailto:" + address and        *)
(* "mailto:" + address + "?" + anything both give exactly the address as the *)
(* recipient of the compose view.                                            *)
C4_MailtoUrlGivesAddress ==
  \A p \in Procs :
    (pc[p] \in {"run", "serving"} /\ domailto(p)) =>
      \A n \in 0..(Len(flags[p].mailto) - 7) :
        LET address == SubSeq(flags[p].mailto, 8, 7 + n) IN
        IsMailtoOf(flags[p].mailto, address) =>
          windows[p][1].modes = << EditMessage(address) >>

(* C5: for a text without a URI scheme prefix, the empty text and a plain    *)
(* user@host included, send_mailto adds exactly one compose mode whose       *)
(* recipient is the text unchanged.                                          *)
C5_NoSchemeUnchanged ==
  \A p \in Procs :
    (pc[p] \in {"run", "serving"} /\ domailto(p) /\ ~HasSchemePrefix(flags[p].mailto)) =>
      /\ Len(windows[p]) >= 1
      /\ windows[p][1].modes = << EditMessage(flags[p].mailto) >>

\* the primary was started with --mailto a?1, which has no scheme and a '?'
C5_Witness ==
  \E p \in Procs :
    /\ pc[p] = "serving"
    /\ flags[p].mailto = <<"a", "?", "1">>
    /\ windows[p][1].modes = << EditMessage(<<"a", "?", "1">>) >>

(* C6 as claimed: with --config X and --test-config (no --help, no           *)
(* --new-config) the process exits with code 1, initialises no subsystem,    *)
(* opens no window and forwards no request, whether or not an instance is    *)
(* running (a failed registration aside).                                    *)
C6_ConfigConflictExitsOne ==
  \A p \in Procs :
    (flags[p].config /\ flags[p].test_config /\ ~flags[p].help /\ ~flags[p].new_config
       /\ pc[p] # "uncaught") =>
      /\ inits[p] = <<>> /\ windows[p] = <<>> /\ sent[p] = <<>>
      /\ pc[p] = "exited" => exit_code[p] = <<1>>

(* C7 as claimed: when registering fails the process reports the error and   *)
(* exits with code 1, with no handler installed, no subsystem initialised,   *)
(* no window opened and nothing forwarded.                                   *)
C7_RegistrationFailureExitsOne ==
  \A p \in Procs :
    pc[p] = "uncaught" =>
      /\ exit_code[p] = <<1>>
      /\ \E i \in 1..Len(log[p]) : log[p][i][1] = "error"
      /\ handlers[p] = {} /\ inits[p] = <<>> /\ windows[p] = <<>> /\ sent[p] = <<>>

\* position of subsystem x in the sequence order, 0 if it is not in it
PositionIn(order, x) ==
  IF \E i \in 1..Len(order) : order[i] = x
  THEN CHOOSE i \in 1..Len(order) : order[i] = x
  ELSE 0

(* C8 as claimed: of two subsystems that both have a teardown step, the one  *)
(* initialised later during bootstrap is torn down earlier in on_quit.       *)
C8_TeardownReversesInit ==
  \A p \in Procs :
    teardown[p] # <<>> =>
      \A i, j \in 1..Len(teardown[p]) :
        PositionIn(inits[p], teardown[p][i]) > PositionIn(inits[p], teardown[p][j])
          => i < j

(* C9: every activate signal a primary swallows is its own self-activation:  *)
(* whenever the handler runs for a request forwarded by another invocation,  *)
(* the activated flag is already set and, for a generic activate, a window   *)
(* is opened.                                                                *)
C9_OnlySelfActivationSwallowed ==
  \A p \in Procs : \A i \in 1..Len(handled[p]) :
    LET h == handled[p][i] IN
    /\ h.after = h.before => h.ev.origin = "self"
    /\ h.ev.origin = "remote" => h.flag

\* a generic activate forwarded during startup waits, the flag still unset,
\* while the primary has not yet entered app->run ()
C9_WitnessPending ==
  \E p \in Procs :
    /\ pc[p] = "own_intent" /\ ~activated[p]
    /\ \E i \in 1..Len(queue[p]) : queue[p][i].kind = "activate"

\* the self-activation was swallowed and a forwarded generic activate, handled
\* after it, opened a window
C9_Witness ==
  \E p \in Procs :
    /\ Len(handled[p]) >= 2
    /\ handled[p][1].ev.origin = "self" /\ handled[p][1].after = handled[p][1].before
    /\ handled[p][2].ev.origin = "remote" /\ handled[p][2].ev.kind = "activate"
    /\ handled[p][2].after = handled[p][2].before + 1

\* the requests of a sequence of handled records
RequestsOf(hs) == [i \in 1..Len(hs) |-> hs[i].ev]

(* C10: the forwarded requests a serving primary has handled are the first   *)
(* of those that arrived, in arrival order, none left out; the k-th of them  *)
(* opened exactly one window, the k-th after the one of the primary's own    *)
(* command line, a compose window for "mailto" and a default window for a    *)
(* generic activate.                                                         *)
C10_OneWindowPerRequestInOrder ==
  \A p \in Procs :
    pc[p] = "serving" =>
      LET fw == Forwarded(p) IN
      /\ Len(fw) <= Len(arrived[p])
      /\ RequestsOf(fw) = SubSeq(arrived[p], 1, Len(fw))
      /\ arrived[p] = RequestsOf(fw) \o queue[p]
      /\ Len(windows[p]) = 1 + Len(fw)
      /\ \A k \in 1..Len(fw) :
           /\ fw[k].before = k /\ fw[k].after = k + 1
           /\ IF fw[k].ev.kind = "mailto"
              THEN IsComposeWindow(windows[p][k + 1])
              ELSE IsDefaultWindow(windows[p][k + 1], m_config[p])

\* a primary has handled a forwarded "mailto" and then a forwarded generic
\* activate, and has the three windows in that order
C10_Witness ==
  \E p \in Procs :
    /\ pc[p] = "serving" /\ ~domailto(p)
    /\ Len(Forwarded(p)) = 2
    /\ Forwarded(p)[1].ev.kind = "mailto" /\ Forwarded(p)[2].ev.kind = "activate"
    /\ Len(windows[p]) = 3
    /\ IsComposeWindow(windows[p][2])
    /\ IsDefaultWindow(windows[p][3], m_config[p])

\* C11: a process started with --new-config (and not with --help, which
\* prints the options and exits before the block is reached) whose target
\* file, the --config path if given and the default path otherwise, exists
\* already has exited with code 1 and has written nothing; and no process
\* started with --new-config ever writes a file that existed.  (One process:
\* while it has written nothing the files are those it was started with.)
C11_ExistingConfigKept ==
  \A p \in Procs :
    (pc[p] # "idle" /\ flags[p].new_config /\ ~flags[p].help) =>
      /\ \A i \in 1..Len(written[p]) : ~written[p][i].existed
      /\ (written[p] = <<>> /\ Target(flags[p]) \in files) =>
           (pc[p] = "exited" /\ exit_code[p] = <<1>>)

\* --new-config --config X was given, X existed, and the process is gone
\* with code 1 while the default file, not the target, is absent
C11_Witness ==
  \E p \in Procs :
    /\ flags[p].new_config /\ flags[p].config
    /\ ~flags[p].help /\ ~flags[p].test_config
    /\ files = {"X"}
    /\ pc[p] = "exited" /\ exit_code[p] = <<1>> /\ written[p] = <<>>

\* a process started with --new-config has not taken part in activation
NewConfigOnly(p) ==
  /\ pc[p] = "exited"
  /\ owner # p /\ ~is_remote[p]
  /\ sent[p] = <<>> /\ handlers[p] = {}
  /\ inits[p] = <<>> /\ poll[p] = <<>>
  /\ windows[p] = <<>>

\* C12: whatever the other flags (--help included), a process started with
\* --new-config has terminated without registering the identity, forwarding
\* a request, installing handlers, bootstrapping or opening a window; with
\* --test-config it has written no configuration and its exit code is 1
\* (0 only when --help, which exits before any other option is looked at,
\* was given as well)
C12_NewConfigTerminatesFirst ==
  \A p \in Procs :
    (pc[p] # "idle" /\ flags[p].new_config) =>
      /\ NewConfigOnly(p)
      /\ flags[p].test_config =>
           /\ written[p] = <<>>
           /\ exit_code[p] = IF flags[p].help THEN <<0>> ELSE <<1>>

\* --new-config --test-config with further flags and a free target: exit 1,
\* nothing written
C12_Witness ==
  \E p \in Procs :
    /\ flags[p].new_config /\ flags[p].test_config /\ ~flags[p].help
    /\ flags[p].no_auto_poll /\ flags[p].log
    /\ Target(flags[p]) \notin files
    /\ NewConfigOnly(p) /\ exit_code[p] = <<1>> /\ written[p] = <<>>

\* the process has logged this line
HasLogged(p, line) == \E i \in 1..Len(log[p]) : log[p][i] = line

\* C13: a second invocation started with --no-auto-poll that found a primary
\* running has logged the warning that the option is ignored, and the poller
\* of every primary has, at every moment of its life (so before and after any
\* request was sent to it and handled), the auto-poll setting it was
\* constructed with from the primary's own command line
C13_SecondaryNoAutoPollIgnored ==
  /\ \A q \in Procs :
       (is_remote[q] /\ flags[q].no_auto_poll /\ pc[q] = "exited") =>
         HasLogged(q, <<"warn", "no-auto-poll ignored">>)
  /\ \A p \in Procs :
       poll[p] # <<>> => poll[p] = << ~flags[p].no_auto_poll >>

\* a primary polling automatically has handled the request of a second
\* invocation started with --no-auto-poll, which has warned and left
C13_Witness ==
  \E p, q \in Procs :
    /\ pc[p] = "serving" /\ ~flags[p].no_auto_poll /\ poll[p] = << TRUE >>
    /\ is_remote[q] /\ flags[q].no_auto_poll /\ pc[q] = "exited"
    /\ HasLogged(q, <<"warn", "no-auto-poll ignored">>)
    /\ Len(sent[q]) = 1
    /\ Len(Forwarded(p)) = 1 /\ queue[p] = <<>>

\* the windows a primary past its own intent has opened for a compose
\* request: the first one if its own command line has --mailto, and the one
\* after the window of the i-th forwarded request if that was a mailto
\* action; each with the text the request carries
ComposeWindows(p) ==
  { [w |-> windows[p][1], raw |-> flags[p].mailto] :
      x \in { y \in {1} : domailto(p) /\ Len(windows[p]) >= 1 } }
  \cup
  { [w |-> windows[p][i + 1], raw |-> Forwarded(p)[i].ev.param] :
      i \in { j \in 1..Len(Forwarded(p)) :
                Forwarded(p)[j].ev.kind = "mailto" /\ Len(windows[p]) >= j + 1 } }

\* C14 as claimed: every window a primary opened for a compose request, its
\* own or a forwarded one, holds exactly one mode, a compose view addressed
\* to the recipient of the request's text, whatever the configuration.
C14_ComposeWindowForRecipient ==
  \A p \in Procs :
    (pc[p] \in {"run", "serving"} /\ self_acts = 1) =>
      \A c \in ComposeWindows(p) :
        c.w.modes = << EditMessage(Recipient(c.raw)) >>

\* the part of C14 that does not depend on the decoded address: one mode, a
\* compose view, and none of the configuration's startup views
C14_ComposeOnly ==
  \A p \in Procs :
    (pc[p] \in {"run", "serving"} /\ self_acts = 1) =>
      \A c \in ComposeWindows(p) :
        /\ Len(c.w.modes) = 1
        /\ c.w.modes[1].kind = "EditMessage"
        /\ \A i \in 1..Len(c.w.modes) :
             c.w.modes[i].kind \notin {"SavedSearches", "ThreadIndex"}

\* the mode list the configuration describes: the saved searches if they are
\* shown on startup, then one thread index per startup query, in order
StartupModes(c) ==
  (IF c.show_on_startup
   THEN << [kind |-> "SavedSearches", arg |-> <<>>, invincible |-> TRUE] >>
   ELSE << >>)
  \o [i \in 1..Len(c.queries) |->
        [kind |-> "ThreadIndex", arg |-> c.queries[i], invincible |-> TRUE]]

\* C15: the window a primary opens for a command line without --mailto has
\* exactly the mode list its configuration describes: the saved-search list
\* first iff show_on_startup, then one thread index per startup query in
\* declared order, every mode invincible; set_active was called once, for the
\* first mode (index 0); and the list is empty when there are no entries
C15_DefaultWindowModes ==
  \A p \in Procs :
    (pc[p] \in {"run", "serving"} /\ ~domailto(p)) =>
      LET w == windows[p][1]
          c == m_config[p]
      IN  /\ w.modes = StartupModes(c)
          /\ (w.modes # <<>>) =>
               (w.modes[1].kind = "SavedSearches") = c.show_on_startup
          /\ \A i \in 1..Len(w.modes) : w.modes[i].invincible
          /\ w.modes # <<>> => w.set_active = << 0 >>
          /\ (~c.show_on_startup /\ c.queries = <<>>) => w.modes = <<>>

\* the saved searches and two startup queries, flagged before inbox
C15_Witness ==
  \E p \in Procs :
    /\ pc[p] = "serving" /\ ~domailto(p)
    /\ m_config[p].show_on_startup
    /\ m_config[p].queries = << <<"flagged", "tag:flagged">>, <<"inbox", "tag:inbox">> >>
    /\ Len(windows[p][1].modes) = 3
    /\ windows[p][1].modes[2].arg = <<"flagged", "tag:flagged">>
    /\ windows[p][1].set_active = << 0 >>

\* C20 as claimed: every set_active (n) made on a window a process has
\* opened names a mode the window has (0 <= n < number of modes); so none is
\* made on a window without modes
C20_ActivatesExistingModeOnly ==
  \A p \in Procs :
    \A i \in 1..Len(windows[p]) :
      \A k \in 1..Len(windows[p][i].set_active) :
        /\ 0 <= windows[p][i].set_active[k]
        /\ windows[p][i].set_active[k] < Len(windows[p][i].modes)

\* the nine subsystems in the order claimed: date utilities, utility helpers,
\* storage handle, keybinding table, saved-search registry, account registry,
\* plugin host, action dispatcher, poller
Subsystems ==
  [i \in 1..9 |->
     CASE i = 1 -> "Date"
       [] i = 2 -> "Utils"
       [] i = 3 -> "Db"
       [] i = 4 -> "Keybindings"
       [] i = 5 -> "SavedSearches"
       [] i = 6 -> "AccountManager"
       [] i = 7 -> "PluginManager"
       [] i = 8 -> "ActionManager"
       [] i = 9 -> "Poll"]

\* C16: the initialisations a process has made are none or the nine
\* subsystems once each in the claimed order (so nothing is ever initialised
\* again, whatever is handled later); a process that has opened a window or
\* handled an event, or that is past bootstrap, has made all nine; a
\* secondary has made none
C16_SubsystemsOnceInOrder ==
  \A p \in Procs :
    /\ inits[p] \in { << >>, Subsystems }
    /\ (windows[p] # <<>> \/ handled[p] # <<>>) => inits[p] = Subsystems
    /\ pc[p] \in {"own_intent", "run", "serving", "quitting"} => inits[p] = Subsystems
    /\ pc[p] \in {"idle", "register", "primary", "load_config", "bootstrap"} => inits[p] = << >>
    /\ is_remote[p] => inits[p] = << >>

\* a primary has handled its self-activation and two forwarded requests,
\* still with the nine initialisations, and the two secondaries made none
C16_Witness ==
  \E p \in Procs :
    /\ pc[p] = "serving" /\ Len(handled[p]) = 3 /\ Len(windows[p]) = 3
    /\ inits[p] = Subsystems
    /\ \A q \in Procs \ {p} :
         is_remote[q] /\ pc[q] = "exited" /\ inits[q] = << >>

\* the process was started with --log and has not logged to the file: the
\* file could not be opened
LogOpenFailed(p) ==
  /\ pc[p] # "idle"
  /\ flags[p].log /\ ~flags[p].help
  /\ ~HasLogged(p, <<"info", "logging to">>)

\* q was started with the command line of p without --log
WithoutLog(q, p) ==
  /\ pc[q] # "idle"
  /\ flags[q] = [flags[p] EXCEPT !.log = FALSE]

\* C17: a process whose --log file could not be opened has logged the
\* diagnostic, has only the console sink and no open log file, and goes on
\* as an invocation of the same command line without --log does: a failed
\* registration aside, it takes a role; as a secondary it opens nothing,
\* sends the same one message and exits 0; as a primary it opens the same
\* window for its command line, and once it has quit it has made the same
\* teardown and exits with the same code
C17_LogOpenFailureIgnored ==
  \A p \in Procs :
    LogOpenFailed(p) =>
      /\ HasLogged(p, <<"error", "could not open">>)
      /\ sinks[p] = {"cout"} /\ ~logf_open[p]
      /\ pc[p] = "exited" => (sent[p] # <<>> \/ teardown[p] # <<>>)
      /\ pc[p] \in {"run", "serving"} => IsOwnWindow(p, windows[p][1])
      /\ \A q \in Procs :
           (WithoutLog(q, p) /\ pc[p] = "exited" /\ pc[q] = "exited"
              /\ is_remote[p] = is_remote[q]) =>
             /\ sent[p] = sent[q]
             /\ exit_code[p] = exit_code[q]
             /\ teardown[p] = teardown[q]
             /\ inits[p] = inits[q]

\* beside a serving primary, one secondary whose log file could not be
\* opened and one started without --log have sent the same message and left
C17_Witness ==
  \E r, p, q \in Procs :
    /\ pc[r] = "serving" /\ Len(windows[r]) = 3
    /\ LogOpenFailed(p) /\ WithoutLog(q, p)
    /\ is_remote[p] /\ is_remote[q]
    /\ pc[p] = "exited" /\ pc[q] = "exited"
    /\ Len(sent[p]) = 1 /\ sent[p] = sent[q]
    /\ exit_code[p] = <<0>>

\* the process has run the shutdown
ShutDown(p) == teardown[p] # << >>

IsMailtoWithQuery(raw) ==
  /\ Len(raw) >= 8
  /\ SubSeq(raw, 1, 7) = MailtoScheme \o <<":">>
  /\ \E i \in 8..Len(raw) : raw[i] = "?"

\* the text up to, and without, its first '?'
BeforeQuery(raw) ==
  LET first == CHOOSE i \in 1..Len(raw) :
                 raw[i] = "?" /\ \A j \in 1..(i - 1) : raw[j] # "?"
  IN  SubSeq(raw, 1, first - 1)

\* C19: a primary started with --mailto "mailto:" + addr + "?" + q, addr
\* without '?', has opened a window with exactly one mode, a compose view,
\* and that mode is the one handling "mailto:" + addr adds: the recipient has
\* nothing of the text from the '?' on
C19_QueryIgnored ==
  \A p \in Procs :
    (pc[p] \in {"run", "serving"} /\ domailto(p) /\ IsMailtoWithQuery(flags[p].mailto)) =>
      LET w == windows[p][1] IN
      /\ Len(w.modes) = 1
      /\ w.modes[1].kind = "EditMessage"
      /\ w.modes = send_mailto(MainWindow, BeforeQuery(flags[p].mailto)).modes
      /\ \A i \in 1..Len(w.modes[1].arg) : w.modes[1].arg[i] # "?"

\* started with --mailto mailto:a?1: one compose view, and its recipient is
\* the one of mailto:a
C19_Witness ==
  \E p \in Procs :
    /\ pc[p] = "serving"
    /\ flags[p].mailto = MailtoScheme \o <<":", "a", "?", "1">>
    /\ Len(windows[p][1].modes) = 1
    /\ windows[p][1].modes =
         send_mailto(MainWindow, MailtoScheme \o <<":", "a">>).modes

====
